---- MODULE Spec2Model ----
(***************************************************************************)
(* A model of the NATS subscriber of watermill-nats                        *)
(* (pkg/nats/subscriber.go): construction (setDefaults, Validate),         *)
(* Subscribe with its watcher and finisher goroutines, the per-message     *)
(* coordination of processMessage, and Close.                              *)
(*                                                                         *)
(* A Go select is modelled in two parts.  A goroutine that reaches a       *)
(* select picks any one of the cases that are ready at that moment; when   *)
(* no case is ready it parks, and the first event that makes a case ready  *)
(* (close of a channel, a receiver arriving, a timer firing) decides the   *)
(* case it resumes with.                                                   *)
(*                                                                         *)
(* Subscribe runs without blocking between its statements and is one       *)
(* action; its goroutines and Close take one action per blocking point.    *)
(* Timers (CloseTimeout, AckWaitTimeout) may fire at any moment in which   *)
(* the goroutine waiting for them is still waiting.                        *)
(***************************************************************************)
EXTENDS Integers, Sequences, FiniteSets, TLC

\* ---- bounds of the model
MaxCount == 2          \* largest SubscribersCount of a running subscriber
MaxSubscribes == 2     \* Subscribe calls per behaviour
MaxCloses == 2         \* Close calls per behaviour
MaxFrames == 1         \* frames the broker delivers per behaviour
MaxNumDelivered == 4   \* largest redelivery counter of a frame

\* ---- program constants
StopTime == -1
DefaultTimeout == 30

Nil == "nil"

Calls == 1..MaxSubscribes
Subs == Calls \X (0..(MaxCount - 1))
Closers == 1..MaxCloses

VARIABLES
    input,          \* the SubscriberSubscriptionConfig handed to NewSubscriberWithNatsConn
    newErr,         \* its error result: "pending" before the call, Nil on success
    config,         \* Subscriber.config (after setDefaults), Nil when construction failed
    topics,         \* the topics the callers of Subscribe use
    closed,         \* Subscriber.closed
    closingCloses,  \* number of close(s.closing) executed; the signal is raised iff > 0
    outputsWg,      \* counter of Subscriber.outputsWg
    drainCalls,     \* number of s.conn.Drain() calls
    closePc,        \* per Close call: "idle", "wait" (holds subsLock, in WaitGroupTimeout), "returned"
    closeResult,    \* per Close call: the error returned
    closeDrained,   \* per Close call: whether this call invoked Drain
    callState,      \* per Subscribe call: "none", "ok" (returned output), "err" (returned an error)
    created,        \* per Subscribe call: native subscriptions registered by QueueSubscribe
    ctxDone,        \* per Subscribe call: its context has been cancelled
    innerWg,        \* per Subscribe call: counter of outputWg
    outputCloses,   \* per Subscribe call: number of close(output) executed
    finisher,       \* per Subscribe call: "none", "waiting", "closedOutput", "done"
    watcher,        \* per native subscription: "none", "waiting", "exited" (after Unsubscribe)
    topic,          \* per Subscribe call: the topic argument
    output,         \* per Subscribe call: the channel made by make(chan), 0 before the call
    subscription,   \* per native subscription: what QueueSubscribe registered
    hpc,            \* per native subscription: position of its running processMessage
    hack,           \* consumer's signal on the message in flight: "none", "acked", "nacked"
    hsecond,        \* the consumer also called the opposite of its first signal (which does nothing)
    hsentClosed,    \* value of s.closed at the moment the message in flight was sent on output
    hsentOn,        \* the channel the message in flight was sent on, 0 before the send
    frames,         \* frames delivered so far
    last,           \* record of the processMessage call that returned last
    blockedAtClose  \* Subscribe calls with a handler parked in the first select when Close closed s.closing

cfgVars == <<input, newErr, config, topics>>
closeVars == <<closed, closingCloses, outputsWg, drainCalls, closePc, closeResult, closeDrained>>
callVars == <<callState, created, ctxDone, innerWg, outputCloses, finisher, watcher>>
regVars == <<topic, output, subscription>>
handlerVars == <<hpc, hack, hsecond, hsentClosed, hsentOn, frames, last, blockedAtClose>>
vars == <<cfgVars, closeVars, callVars, regVars, handlerVars>>

\* ------------------------------------------------------------------------
\* Configuration: setDefaults and Validate

NonPositiveToDefault(t) == IF t <= 0 THEN DefaultTimeout ELSE t

setDefaults(c) ==
    [c EXCEPT
        !.SubscribersCount = IF c.SubscribersCount <= 0 THEN 1 ELSE c.SubscribersCount,
        !.CloseTimeout = NonPositiveToDefault(c.CloseTimeout),
        !.AckWaitTimeout = NonPositiveToDefault(c.AckWaitTimeout),
        !.SubscribeTimeout = NonPositiveToDefault(c.SubscribeTimeout),
        !.Unmarshaler = IF c.Unmarshaler = Nil THEN "NATSMarshaler" ELSE c.Unmarshaler,
        !.SubjectCalculator =
            IF c.SubjectCalculator = Nil THEN "DefaultSubjectCalculator" ELSE c.SubjectCalculator]

\* Faulty variant: rejects a single subscriber without a queue group, too.
ValidateQueueGroupOffByOne(c) == c.QueueGroup = "" /\ c.SubscribersCount >= 1

ValidateQueueGroup(c) == c.QueueGroup = "" /\ c.SubscribersCount > 1

Validate(c) ==
    IF c.Unmarshaler = Nil THEN "SubscriberConfig.Unmarshaler is missing"
    ELSE IF ValidateQueueGroup(c) THEN "to set SubscriberConfig.SubscribersCount you need to also set SubscriberConfig.QueueGroup"
    ELSE IF c.SubjectCalculator = Nil THEN "SubscriberSubscriptionConfig.SubjectCalculator is required."
    ELSE Nil

ValidationErrors ==
    { "SubscriberConfig.Unmarshaler is missing",
      "to set SubscriberConfig.SubscribersCount you need to also set SubscriberConfig.QueueGroup",
      "SubscriberSubscriptionConfig.SubjectCalculator is required." }

\* The delay policy of the running subscribers: one result of every class.
WaitTime(policy, numDelivered) ==
    CASE numDelivered = 1 -> 2
      [] numDelivered = 2 -> 0
      [] numDelivered = 3 -> StopTime
      [] OTHER -> -2

\* Configurations handed to the constructor in the construction specification.
RawConfigs ==
    [ SubscribersCount : (-1)..(MaxCount + 1),
      QueueGroup : {"", "g"},
      CloseTimeout : {0, 5},
      AckWaitTimeout : {-1, 7},
      SubscribeTimeout : {0, 9},
      Unmarshaler : {Nil, "GobMarshaler"},
      SubjectCalculator : {Nil, "custom"},
      AckSync : {FALSE},
      NakDelay : {Nil},
      JetStreamEnabled : BOOLEAN ]

\* Configurations of the running subscribers: every SubscribersCount (Spec), and
\* every combination of AckSync and NakDelay with a single subscription (SpecAck).
RunConfigs ==
    [ SubscribersCount : 1..MaxCount,
      QueueGroup : {"g"},
      CloseTimeout : {0},
      AckWaitTimeout : {0},
      SubscribeTimeout : {0},
      Unmarshaler : {Nil},
      SubjectCalculator : {Nil},
      AckSync : {FALSE},
      NakDelay : {Nil},
      JetStreamEnabled : {FALSE} ]

AckConfigs ==
    [ SubscribersCount : {1},
      QueueGroup : {""},
      CloseTimeout : {0},
      AckWaitTimeout : {0},
      SubscribeTimeout : {0},
      Unmarshaler : {Nil},
      SubjectCalculator : {Nil},
      AckSync : BOOLEAN,
      NakDelay : {Nil, "policy"},
      JetStreamEnabled : {FALSE} ]

\* ------------------------------------------------------------------------
\* Initial states

\* What is recorded of a processMessage call when it returns: the Subscribe call it
\* belongs to, the way it ended, whether and when the message was sent on output, the
\* consumer's signal and whether it also tried the opposite one, m.Reply (when read),
\* the results of m.Metadata() and of NakDelay.WaitTime (empty when not called), and
\* the transport calls made.
Record(c, outcome, delivered, sentClosed, sig, second, reply, meta, nak, calls) ==
    [call |-> c, outcome |-> outcome, delivered |-> delivered, sentClosed |-> sentClosed,
     hack |-> sig, second |-> second, reply |-> reply, meta |-> meta, nak |-> nak,
     calls |-> calls]

NoRecord == Record(0, "none", FALSE, FALSE, "none", FALSE, "unread", <<>>, <<>>, <<>>)

\* What QueueSubscribe registered for a native subscription: subject, queue group,
\* and the channel its callback (the closure over output) sends to.
NoSubscription == [subject |-> "", queue |-> "", output |-> 0]

InitRuntime ==
    /\ closed = FALSE
    /\ closingCloses = 0
    /\ outputsWg = 0
    /\ drainCalls = 0
    /\ closePc = [k \in Closers |-> "idle"]
    /\ closeResult = [k \in Closers |-> "none"]
    /\ closeDrained = [k \in Closers |-> FALSE]
    /\ callState = [c \in Calls |-> "none"]
    /\ created = [c \in Calls |-> 0]
    /\ ctxDone = [c \in Calls |-> FALSE]
    /\ innerWg = [c \in Calls |-> 0]
    /\ outputCloses = [c \in Calls |-> 0]
    /\ finisher = [c \in Calls |-> "none"]
    /\ watcher = [s \in Subs |-> "none"]
    /\ hpc = [s \in Subs |-> "idle"]
    /\ hack = [s \in Subs |-> "none"]
    /\ hsecond = [s \in Subs |-> FALSE]
    /\ hsentClosed = [s \in Subs |-> FALSE]
    /\ hsentOn = [s \in Subs |-> 0]
    /\ topic = [c \in Calls |-> ""]
    /\ output = [c \in Calls |-> 0]
    /\ subscription = [s \in Subs |-> NoSubscription]
    /\ frames = 0
    /\ last = NoRecord
    /\ blockedAtClose = {}

\* The topics of the Subscribe calls: one topic where the topic plays no part, two
\* in the specification of the registrations.
OneTopic == {"orders"}
Topics == {"orders", "events"}

\* The state after a successful NewSubscriberWithNatsConn.
Init ==
    /\ input \in RunConfigs
    /\ Validate(setDefaults(input)) = Nil
    /\ newErr = Nil
    /\ config = setDefaults(input)
    /\ topics = OneTopic
    /\ InitRuntime

InitTopics ==
    /\ input \in RunConfigs
    /\ Validate(setDefaults(input)) = Nil
    /\ newErr = Nil
    /\ config = setDefaults(input)
    /\ topics = Topics
    /\ InitRuntime

InitAck ==
    /\ input \in AckConfigs
    /\ Validate(setDefaults(input)) = Nil
    /\ newErr = Nil
    /\ config = setDefaults(input)
    /\ topics = OneTopic
    /\ InitRuntime

\* The state before NewSubscriberWithNatsConn is called.
InitNew ==
    /\ input \in RawConfigs
    /\ newErr = "pending"
    /\ config = Nil
    /\ topics = OneTopic
    /\ InitRuntime

\* ------------------------------------------------------------------------
\* NewSubscriberWithNatsConn

NewSubscriberWithNatsConn ==
    /\ newErr = "pending"
    /\ LET c == setDefaults(input)
           err == Validate(c)
       IN  \E jsFails \in BOOLEAN :
             /\ jsFails => (err = Nil /\ c.JetStreamEnabled)
             /\ newErr' = IF err # Nil THEN err
                          ELSE IF jsFails THEN "jetstream" ELSE Nil
             /\ config' = IF err # Nil \/ jsFails THEN Nil ELSE c
    /\ UNCHANGED <<input, topics, closeVars, regVars, callVars, handlerVars>>

\* ------------------------------------------------------------------------
\* Shared helpers

closingSignalled == closingCloses > 0

\* subsLock is free: no Close call holds the write lock.
LockFree == \A k \in Closers : closePc[k] # "wait"

callOf(s) == s[1]

SubsOf(c) == { s \in Subs : s[1] = c /\ s[2] < created[c] }

\* A Go panic ends the process: send on a closed channel.
Crashed == \E s \in Subs : hpc[s] = "panic"

\* Closing s.closing, or cancelling the context of the Subscribe calls in D, resumes
\* the handlers parked in a select of processMessage with that case.
\* Faulty variant: a cancelled context resumes the handlers of every Subscribe call.
WokenAnyCall(D, s, reason) ==
    IF hpc[s] = "handoffWait" THEN "handoff" \o reason
    ELSE IF hpc[s] = "ackWait" THEN "ack" \o reason
    ELSE hpc[s]

Woken(D, s, reason) ==
    IF callOf(s) \in D /\ hpc[s] = "handoffWait" THEN "handoff" \o reason
    ELSE IF callOf(s) \in D /\ hpc[s] = "ackWait" THEN "ack" \o reason
    ELSE hpc[s]

\* ------------------------------------------------------------------------
\* Subscribe: the whole call.  failAt is the index at which s.subscribe fails,
\* config.SubscribersCount when every QueueSubscribe succeeds.


\* SubjectCalculator(topic).Primary; the default calculator yields "{topic}.*".
Primary(calculator, t) ==
    IF calculator = "DefaultSubjectCalculator" THEN t \o ".*" ELSE calculator \o "." \o t

\* make(chan *message.Message): a channel no earlier call made.
MakeChan == Cardinality({ d \in Calls : callState[d] # "none" }) + 1

\* s.subscribe(topic, cb) with the callback closing over output.
\* Faulty variant: subscribes on the topic itself, not on its primary subject.
subscribeOnTopic(t, ch) ==
    [subject |-> t, queue |-> config.QueueGroup, output |-> ch]

subscribe(t, ch) ==
    [subject |-> Primary(config.SubjectCalculator, t), queue |-> config.QueueGroup, output |-> ch]

Subscribe(c) ==
    /\ newErr = Nil
    /\ callState[c] = "none"
    /\ \A d \in Calls : d < c => callState[d] # "none"
    /\ \E failAt \in 0..config.SubscribersCount, t \in topics :
         LET ok == failAt = config.SubscribersCount IN
         /\ topic' = [topic EXCEPT ![c] = t]
         /\ output' = [output EXCEPT ![c] = MakeChan]
         /\ subscription' = [s \in Subs |->
                               IF s[1] = c /\ s[2] < failAt THEN subscribe(t, MakeChan)
                               ELSE subscription[s]]
         /\ outputsWg' = outputsWg + 1
         /\ callState' = [callState EXCEPT ![c] = IF ok THEN "ok" ELSE "err"]
         /\ created' = [created EXCEPT ![c] = failAt]
         /\ innerWg' = [innerWg EXCEPT ![c] = IF ok THEN failAt ELSE failAt + 1]
         /\ watcher' = [s \in Subs |->
                          IF s[1] = c /\ s[2] < failAt THEN "waiting" ELSE watcher[s]]
         /\ finisher' = [finisher EXCEPT ![c] = IF ok THEN "waiting" ELSE "none"]
    /\ UNCHANGED <<cfgVars, closed, closingCloses, drainCalls, closePc, closeResult,
                   closeDrained, ctxDone, outputCloses, handlerVars>>

\* The caller cancels the context it passed to Subscribe call c.
CancelCtx(c) ==
    /\ callState[c] # "none"
    /\ ~ctxDone[c]
    /\ ctxDone' = [ctxDone EXCEPT ![c] = TRUE]
    /\ hpc' = [s \in Subs |-> Woken({c}, s, "Ctx")]
    /\ UNCHANGED <<cfgVars, regVars, closeVars, callState, created, innerWg, outputCloses,
                   finisher, watcher, hack, hsecond, hsentClosed, hsentOn, frames, last, blockedAtClose>>

\* The watcher goroutine: select on s.closing and ctx.Done(), then sub.Unsubscribe()
\* and the deferred outputWg.Done().
WatcherReleased(s) == closingSignalled \/ ctxDone[callOf(s)]

WatcherUnsubscribe(s) ==
    /\ watcher[s] = "waiting"
    /\ WatcherReleased(s)
    /\ watcher' = [watcher EXCEPT ![s] = "exited"]
    /\ innerWg' = [innerWg EXCEPT ![callOf(s)] = innerWg[callOf(s)] - 1]
    /\ UNCHANGED <<cfgVars, regVars, closeVars, callState, created, ctxDone, outputCloses,
                   finisher, handlerVars>>

\* The finisher goroutine: outputWg.Wait(), close(output), deferred s.outputsWg.Done().
\* Faulty variant: the finisher does not wait for the last watcher.
OutputWgWaitOffByOne(c) == innerWg[c] <= 1

OutputWgWait(c) == innerWg[c] = 0

FinisherClose(c) ==
    /\ finisher[c] = "waiting"
    /\ OutputWgWait(c)
    /\ outputCloses' = [outputCloses EXCEPT ![c] = outputCloses[c] + 1]
    /\ finisher' = [finisher EXCEPT ![c] = "closedOutput"]
    /\ UNCHANGED <<cfgVars, regVars, closeVars, callState, created, ctxDone, innerWg, watcher,
                   handlerVars>>

FinisherDone(c) ==
    /\ finisher[c] = "closedOutput"
    /\ finisher' = [finisher EXCEPT ![c] = "done"]
    /\ outputsWg' = outputsWg - 1
    /\ UNCHANGED <<cfgVars, regVars, closed, closingCloses, drainCalls, closePc, closeResult,
                   closeDrained, callState, created, ctxDone, innerWg, outputCloses,
                   watcher, handlerVars>>

\* ------------------------------------------------------------------------
\* Close

ErrTimeout == "output wait group did not finish"
ErrDrain == "cannot close conn"

\* Faulty variant: Close without the closed check.
AlreadyClosedIgnored == FALSE

AlreadyClosed == closed

\* s.closed = true
\* Faulty variant: Close does not set the closed flag.
MarkClosedForgotten == FALSE

MarkClosed == TRUE

\* Lock subsLock; return nil when already closed, else mark closed and close(s.closing).
CloseBegin(k) ==
    /\ newErr = Nil
    /\ closePc[k] = "idle"
    /\ \A j \in Closers : j < k => closePc[j] # "idle"
    /\ LockFree
    /\ IF AlreadyClosed
       THEN /\ closePc' = [closePc EXCEPT ![k] = "returned"]
            /\ closeResult' = [closeResult EXCEPT ![k] = Nil]
            /\ UNCHANGED <<closed, closingCloses, hpc, blockedAtClose>>
       ELSE /\ closed' = MarkClosed
            /\ closingCloses' = closingCloses + 1
            /\ hpc' = [s \in Subs |-> Woken(Calls, s, "Closing")]
            /\ blockedAtClose' = { callOf(s) : s \in { x \in Subs : hpc[x] = "handoffWait" } }
            /\ closePc' = [closePc EXCEPT ![k] = "wait"]
            /\ UNCHANGED closeResult
    /\ UNCHANGED <<cfgVars, regVars, outputsWg, drainCalls, closeDrained, callVars, hack, hsecond,
                   hsentClosed, hsentOn, frames, last>>

\* WaitGroupTimeout reports a timeout (CloseTimeout elapsed while s.outputsWg had
\* not finished): return the error; subsLock is released.
\* Faulty variant: Close drains the connection although the wait timed out.
DrainOnTimeoutAlways == TRUE

DrainOnTimeout == FALSE

CloseTimeout(k) ==
    /\ closePc[k] = "wait"
    /\ outputsWg > 0
    /\ closePc' = [closePc EXCEPT ![k] = "returned"]
    /\ closeResult' = [closeResult EXCEPT ![k] = ErrTimeout]
    /\ drainCalls' = IF DrainOnTimeout THEN drainCalls + 1 ELSE drainCalls
    /\ closeDrained' = [closeDrained EXCEPT ![k] = DrainOnTimeout]
    /\ UNCHANGED <<cfgVars, regVars, closed, closingCloses, outputsWg, callVars, handlerVars>>

\* WaitGroupTimeout reports that s.outputsWg finished: Drain, return its error wrapped.
\* Faulty variant: Close drains without waiting for s.outputsWg.
OutputsWgFinishedUnchecked == TRUE

OutputsWgFinished == outputsWg = 0

CloseDrain(k) ==
    /\ closePc[k] = "wait"
    /\ OutputsWgFinished
    /\ \E drainErr \in BOOLEAN :
         closeResult' = [closeResult EXCEPT ![k] = IF drainErr THEN ErrDrain ELSE Nil]
    /\ drainCalls' = drainCalls + 1
    /\ closeDrained' = [closeDrained EXCEPT ![k] = TRUE]
    /\ closePc' = [closePc EXCEPT ![k] = "returned"]
    /\ UNCHANGED <<cfgVars, regVars, closed, closingCloses, outputsWg, callVars, handlerVars>>

\* ------------------------------------------------------------------------
\* processMessage, one running instance per native subscription (the client
\* library invokes the callback of a subscription for one frame at a time).
\* Positions: "isClosed" (before the closed check), "handoff" / "handoffWait" (at /
\* parked in the first select), "ack" / "ackWait" (at / parked in the second select),
\* "doAck" / "doNack" (in the Acked / Nacked case), and "handoffClosing", "handoffCtx",
\* "ackClosing", "ackCtx", "ackTimeout" (in the case named, about to return).

Replies == {"", "reply"}

\* Results of m.Metadata(): an error, or metadata with NumDelivered >= 1.
Metadata ==
    {[err |-> TRUE, NumDelivered |-> 0]}
        \cup {[err |-> FALSE, NumDelivered |-> n] : n \in 1..MaxNumDelivered}

Call(op, delay) == [op |-> op, delay |-> delay]

HandoffPcs == {"handoff", "handoffWait"}
AckPcs == {"ack", "ackWait", "doAck", "doNack"}
ExitPcs == {"handoffClosing", "handoffCtx", "ackClosing", "ackCtx", "ackTimeout"}
DeliveredPcs == AckPcs \cup {"ackClosing", "ackCtx", "ackTimeout"}

\* The handler returns to the client library: its frame and message are finished.
Return(s, outcome, reply, meta, nak, calls) ==
    /\ hpc' = [hpc EXCEPT ![s] = "idle"]
    /\ last' = Record(callOf(s), outcome, hpc[s] \in DeliveredPcs, hsentClosed[s],
                      hack[s], hsecond[s], reply, meta, nak, calls)
    /\ hack' = [hack EXCEPT ![s] = "none"]
    /\ hsecond' = [hsecond EXCEPT ![s] = FALSE]
    /\ hsentClosed' = [hsentClosed EXCEPT ![s] = FALSE]
    /\ hsentOn' = [hsentOn EXCEPT ![s] = 0]

\* Unmarshal failed: the error is logged and the handler returns, no transport call.
\* Faulty variant: the frame that cannot be unmarshalled is terminated.
UnmarshalErrorTerms == <<Call("Term", 0)>>

UnmarshalErrorCalls == <<>>

\* The broker delivers a frame to the callback of an active subscription; Unmarshal.
Deliver(s) ==
    /\ s \in SubsOf(callOf(s))
    /\ watcher[s] = "waiting"
    /\ hpc[s] = "idle"
    /\ frames < MaxFrames
    /\ frames' = frames + 1
    /\ \E unmarshalOk \in BOOLEAN :
         IF unmarshalOk
         THEN /\ hpc' = [hpc EXCEPT ![s] = "isClosed"]
              /\ UNCHANGED <<hack, hsecond, hsentClosed, hsentOn, last>>
         ELSE Return(s, "unmarshalError", "unread", <<>>, <<>>, UnmarshalErrorCalls)
    /\ UNCHANGED <<cfgVars, regVars, closeVars, callVars, blockedAtClose>>

\* if s.isClosed() { return }: reads s.closed under the read lock.
isClosed == closed

IsClosedCheck(s) ==
    /\ hpc[s] = "isClosed"
    /\ LockFree
    /\ IF isClosed
       THEN Return(s, "closedFlag", "unread", <<>>, <<>>, <<>>)
       ELSE /\ hpc' = [hpc EXCEPT ![s] = "handoff"]
            /\ UNCHANGED <<hack, hsecond, hsentClosed, hsentOn, last>>
    /\ UNCHANGED <<cfgVars, regVars, closeVars, callVars, frames, blockedAtClose>>

\* The first select, reached with a case ready, or with none (park).  The send
\* case (HandoffSend) is ready when a consumer is receiving on output, and also
\* when output is closed, where choosing it panics.
HandoffSelect(s) ==
    /\ hpc[s] = "handoff"
    /\ \/ /\ closingSignalled
          /\ hpc' = [hpc EXCEPT ![s] = "handoffClosing"]
       \/ /\ ctxDone[callOf(s)]
          /\ hpc' = [hpc EXCEPT ![s] = "handoffCtx"]
       \/ /\ outputCloses[callOf(s)] > 0
          /\ hpc' = [hpc EXCEPT ![s] = "panic"]
       \/ /\ ~closingSignalled
          /\ ~ctxDone[callOf(s)]
          /\ outputCloses[callOf(s)] = 0
          /\ hpc' = [hpc EXCEPT ![s] = "handoffWait"]
    /\ UNCHANGED <<cfgVars, regVars, closeVars, callVars, hack, hsecond, hsentClosed, hsentOn, frames, last,
                   blockedAtClose>>

\* case output <- msg: a consumer takes the message, either one that was already
\* receiving when the handler reached the select or one that arrives while it is parked.
HandoffSend(s) ==
    /\ hpc[s] \in HandoffPcs
    /\ callState[callOf(s)] = "ok"
    /\ outputCloses[callOf(s)] = 0
    /\ hpc' = [hpc EXCEPT ![s] = "ack"]
    /\ hsentClosed' = [hsentClosed EXCEPT ![s] = closed]
    /\ hsentOn' = [hsentOn EXCEPT ![s] = subscription[s].output]
    /\ UNCHANGED <<cfgVars, regVars, closeVars, callVars, hack, hsecond, frames, last, blockedAtClose>>

\* The second select, reached with a case ready, or with none (park).
AckSelect(s) ==
    /\ hpc[s] = "ack"
    /\ \/ /\ hack[s] = "acked"
          /\ hpc' = [hpc EXCEPT ![s] = "doAck"]
       \/ /\ hack[s] = "nacked"
          /\ hpc' = [hpc EXCEPT ![s] = "doNack"]
       \/ /\ closingSignalled
          /\ hpc' = [hpc EXCEPT ![s] = "ackClosing"]
       \/ /\ ctxDone[callOf(s)]
          /\ hpc' = [hpc EXCEPT ![s] = "ackCtx"]
       \/ /\ hack[s] = "none"
          /\ ~closingSignalled
          /\ ~ctxDone[callOf(s)]
          /\ hpc' = [hpc EXCEPT ![s] = "ackWait"]
    /\ UNCHANGED <<cfgVars, regVars, closeVars, callVars, hack, hsecond, hsentClosed, hsentOn, frames, last,
                   blockedAtClose>>

\* case <-timeout.C: the ack-wait timer, started before the handoff, has fired.
AckTimeout(s) ==
    /\ hpc[s] \in {"ack", "ackWait"}
    /\ hpc' = [hpc EXCEPT ![s] = "ackTimeout"]
    /\ UNCHANGED <<cfgVars, regVars, closeVars, callVars, hack, hsecond, hsentClosed, hsentOn, frames, last,
                   blockedAtClose>>

\* The consumer calls msg.Ack() or msg.Nack() on a message it received; the two
\* signals exclude each other.  A handler parked in the second select resumes.
ConsumerSignal(s, sig) ==
    /\ hpc[s] \in DeliveredPcs
    /\ hack[s] = "none"
    /\ hack' = [hack EXCEPT ![s] = sig]
    /\ hpc' = [hpc EXCEPT ![s] =
                 IF hpc[s] = "ackWait"
                 THEN (IF sig = "acked" THEN "doAck" ELSE "doNack")
                 ELSE hpc[s]]
    /\ UNCHANGED <<cfgVars, regVars, closeVars, callVars, hsecond, hsentClosed, hsentOn,
                   frames, last, blockedAtClose>>

ConsumerAck(s) == ConsumerSignal(s, "acked")

ConsumerNack(s) == ConsumerSignal(s, "nacked")

\* The consumer calls msg.Nack() after msg.Ack(), or msg.Ack() after msg.Nack(): the
\* message keeps its first signal, the channel of the other one is never closed.
ConsumerSecondSignal(s) ==
    /\ hpc[s] \in DeliveredPcs
    /\ hack[s] # "none"
    /\ ~hsecond[s]
    /\ hsecond' = [hsecond EXCEPT ![s] = TRUE]
    /\ UNCHANGED <<cfgVars, regVars, closeVars, callVars, hpc, hack, hsentClosed, hsentOn,
                   frames, last, blockedAtClose>>

\* The consumer acks or nacks the message of the call that returned last, too late
\* for its handler.
LateSignal(sig) ==
    /\ last.delivered
    /\ last.hack = "none"
    /\ last' = [last EXCEPT !.hack = sig]
    /\ UNCHANGED <<cfgVars, regVars, closeVars, callVars, hpc, hack, hsecond, hsentClosed, hsentOn, frames,
                   blockedAtClose>>

LateAck == LateSignal("acked")

LateNack == LateSignal("nacked")

LateSecondSignal ==
    /\ last.delivered
    /\ last.hack # "none"
    /\ ~last.second
    /\ last' = [last EXCEPT !.second = TRUE]
    /\ UNCHANGED <<cfgVars, regVars, closeVars, callVars, hpc, hack, hsecond, hsentClosed,
                   hsentOn, frames, blockedAtClose>>

\* if m.Reply == "" { return }, the first statement of the Acked and Nacked cases.
\* Faulty variant: the reply subject is not looked at.
NoReplyIgnored(reply) == FALSE

NoReply(reply) == reply = ""

\* case <-msg.Acked().  m.Reply is read here for the first time, so the reply subject
\* of the frame is drawn here.
\* Faulty variant: the AckSync flag is read inverted.
AckTransportInverted == IF config.AckSync THEN Call("Ack", 0) ELSE Call("AckSync", 0)

AckTransport == IF config.AckSync THEN Call("AckSync", 0) ELSE Call("Ack", 0)

DoAck(s) ==
    /\ hpc[s] = "doAck"
    /\ \E reply \in Replies :
         Return(s, "acked", reply, <<>>, <<>>,
                IF NoReply(reply) THEN <<>> ELSE <<AckTransport>>)
    /\ UNCHANGED <<cfgVars, regVars, closeVars, callVars, frames, blockedAtClose>>

\* case <-msg.Nacked().  m.Reply and m.Metadata() are read here for the first time, so
\* the reply subject and the metadata of the frame are drawn here.
\* Faulty variant: every negative delay terminates the message.
NakTransportAnyNegativeTerms(nakDelay) ==
    IF nakDelay < 0 THEN Call("Term", 0)
    ELSE IF nakDelay > 0 THEN Call("NakWithDelay", nakDelay)
    ELSE Call("Nak", 0)

NakTransport(nakDelay) ==
    IF nakDelay = StopTime THEN Call("Term", 0)
    ELSE IF nakDelay > 0 THEN Call("NakWithDelay", nakDelay)
    ELSE Call("Nak", 0)

\* The transport calls of the Nacked case: Term returns, so no Nak follows it.
\* Faulty variant: the return after Term is missing, a Nak follows.
NakCallsTermFallsThrough(nakDelay) ==
    IF nakDelay = StopTime THEN <<Call("Term", 0), Call("Nak", 0)>>
    ELSE <<NakTransport(nakDelay)>>

NakCalls(nakDelay) == <<NakTransport(nakDelay)>>

DoNack(s) ==
    /\ hpc[s] = "doNack"
    /\ \E reply \in Replies :
         IF NoReply(reply)
         THEN Return(s, "nacked", reply, <<>>, <<>>, <<>>)
         ELSE IF config.NakDelay = Nil
         THEN Return(s, "nacked", reply, <<>>, <<>>, NakCalls(0))
         ELSE \E meta \in Metadata :
                IF meta.err
                THEN Return(s, "nacked", reply, <<meta>>, <<>>, NakCalls(0))
                ELSE LET nakDelay == WaitTime(config.NakDelay, meta.NumDelivered) IN
                     Return(s, "nacked", reply, <<meta>>, <<nakDelay>>, NakCalls(nakDelay))
    /\ UNCHANGED <<cfgVars, regVars, closeVars, callVars, frames, blockedAtClose>>

\* A handler that left a select by closing, ctx.Done() or the timer logs and returns.
\* Faulty variant: the handler naks the frame before it returns.
HandlerExitNaks(s) ==
    /\ hpc[s] \in ExitPcs
    /\ Return(s, hpc[s], "unread", <<>>, <<>>, <<Call("Nak", 0)>>)
    /\ UNCHANGED <<cfgVars, regVars, closeVars, callVars, frames, blockedAtClose>>

HandlerExit(s) ==
    /\ hpc[s] \in ExitPcs
    /\ Return(s, hpc[s], "unread", <<>>, <<>>, <<>>)
    /\ UNCHANGED <<cfgVars, regVars, closeVars, callVars, frames, blockedAtClose>>

\* ------------------------------------------------------------------------
\* Specifications

Next ==
    /\ ~Crashed
    /\ \/ \E c \in Calls : Subscribe(c)
       \/ \E c \in Calls : CancelCtx(c)
       \/ \E s \in Subs : WatcherUnsubscribe(s)
       \/ \E c \in Calls : FinisherClose(c)
       \/ \E c \in Calls : FinisherDone(c)
       \/ \E k \in Closers : CloseBegin(k)
       \/ \E k \in Closers : CloseTimeout(k)
       \/ \E k \in Closers : CloseDrain(k)
       \/ \E s \in Subs : Deliver(s)
       \/ \E s \in Subs : IsClosedCheck(s)
       \/ \E s \in Subs : HandoffSelect(s)
       \/ \E s \in Subs : HandoffSend(s)
       \/ \E s \in Subs : AckSelect(s)
       \/ \E s \in Subs : AckTimeout(s)
       \/ \E s \in Subs : ConsumerAck(s)
       \/ \E s \in Subs : ConsumerNack(s)
       \/ \E s \in Subs : ConsumerSecondSignal(s)
       \/ LateAck
       \/ LateNack
       \/ LateSecondSignal
       \/ \E s \in Subs : DoAck(s)
       \/ \E s \in Subs : DoNack(s)
       \/ \E s \in Subs : HandlerExit(s)

Spec == Init /\ [][Next]_vars

SpecTopics == InitTopics /\ [][Next]_vars

SpecAck == InitAck /\ [][Next]_vars

\* The Go scheduler runs every goroutine that can run: a watcher whose select has a
\* ready case unsubscribes, a finisher whose outputWg.Wait() can return closes output
\* and calls Done, as long as the process has not ended with a panic.
Fairness ==
    /\ \A s \in Subs : WF_vars(~Crashed /\ WatcherUnsubscribe(s))
    /\ \A c \in Calls : WF_vars(~Crashed /\ FinisherClose(c))
    /\ \A c \in Calls : WF_vars(~Crashed /\ FinisherDone(c))

SpecFair == Init /\ [][Next]_vars /\ Fairness

NextNew == NewSubscriberWithNatsConn

SpecNew == InitNew /\ [][NextNew]_vars

\* ------------------------------------------------------------------------
\* Properties

InPhase(s) == hpc[s] \in HandoffPcs \cup AckPcs

\* C1: once Close has marked the subscriber closed (closed flag set, closing signal
\* raised), no handler hands a further message to a consumer on a delivery channel.
C1_NoHandoffAfterClose ==
    [][(closed /\ closingSignalled) =>
          \A s \in Subs : ~(hpc[s] \in HandoffPcs /\ hpc'[s] = "ack")]_vars

\* C2: the delivery channel of a successful Subscribe call is closed at most once,
\* and only after each of its SubscribersCount watchers has called Unsubscribe,
\* released by the closing signal or by the cancellation of the call's context.
C2_OutputClosedOnceAfterUnsubscribes ==
    \A c \in Calls :
        /\ outputCloses[c] <= 1
        /\ outputCloses[c] > 0 =>
             /\ callState[c] = "ok"
             /\ Cardinality({ s \in Subs : callOf(s) = c /\ watcher[s] = "exited" })
                    = config.SubscribersCount
             /\ closingSignalled \/ ctxDone[c]

C2_Witness ==
    \E c \in Calls : outputCloses[c] = 1 /\ config.SubscribersCount > 1 /\ ~closingSignalled

\* C3 as stated: a message handed to the delivery channel before Close is invoked
\* ends its coordination acked, nacked, by the ack-wait timeout or by the
\* cancellation of the Subscribe context, and in no other way.
C3_FourOutcomes ==
    (last.delivered /\ ~last.sentClosed) =>
        last.outcome \in {"acked", "nacked", "ackTimeout", "ackCtx"}

\* C3 amended: a message handed to the delivery channel before Close is invoked ends
\* its coordination in exactly one of five ways, each on its own signal: acked,
\* nacked, ack-wait timeout, cancellation of the Subscribe context, or the closing
\* signal of Close.
C3_FiveOutcomes ==
    (last.delivered /\ ~last.sentClosed) =>
        /\ last.outcome \in {"acked", "nacked", "ackTimeout", "ackCtx", "ackClosing"}
        /\ last.outcome = "acked" => last.hack = "acked"
        /\ last.outcome = "nacked" => last.hack = "nacked"
        /\ last.outcome = "ackCtx" => ctxDone[last.call]
        /\ last.outcome = "ackClosing" => closingSignalled

C3_Witness ==
    last.delivered /\ ~last.sentClosed /\ last.outcome = "ackClosing" /\ last.hack = "none"

\* C4: a Close call that returns while a handler is still in the handoff phase or
\* the ack phase of processMessage returns the close-timeout error; it never
\* returns success then.
C4_CloseWaitsForHandlers ==
    [][\A k \in Closers :
          (closePc[k] = "wait" /\ closePc'[k] = "returned" /\ \E s \in Subs : InPhase(s))
              => closeResult'[k] = ErrTimeout]_vars

\* C5 as stated: when Close is invoked while a message is blocked in the handoff
\* phase, Close returns the close-timeout error.
C5_CloseTimesOut ==
    (blockedAtClose # {} /\ closePc[1] = "returned") => closeResult[1] = ErrTimeout

\* C5 amended: when Close is invoked while a message is blocked in the handoff
\* phase, the handler leaves through the closing case without delivering and
\* without any transport call; Close returns nil, the Drain error or the
\* close-timeout error, and when it is not the close-timeout error the delivery
\* channel of that message is closed.
C5_BlockedHandoffOnClose ==
    /\ (blockedAtClose # {} /\ closePc[1] = "returned") =>
          /\ closeResult[1] \in {Nil, ErrDrain, ErrTimeout}
          /\ closeResult[1] # ErrTimeout => \A c \in blockedAtClose : outputCloses[c] = 1
    /\ \A s \in Subs : hpc[s] = "handoffClosing" => closingSignalled
    /\ last.outcome = "handoffClosing" => (~last.delivered /\ last.calls = <<>>)

C5_Witness ==
    /\ blockedAtClose # {}
    /\ closePc[1] = "returned"
    /\ closeResult[1] = Nil
    /\ last.outcome = "handoffClosing"

\* C6: a Close call whose wait on the outer wait group times out returns an error
\* without calling Drain; Drain is called only by a Close call that found the
\* outer wait group finished, and a Drain error is returned from that call.
C6_TimeoutSkipsDrain ==
    /\ [](\A k \in Closers :
            /\ closeResult[k] = ErrTimeout => ~closeDrained[k]
            /\ closeResult[k] = ErrDrain => closeDrained[k])
    /\ [][\A k \in Closers :
            /\ (~closeDrained[k] /\ closeDrained'[k]) => outputsWg = 0
            /\ drainCalls' # drainCalls =>
                 \E j \in Closers : closePc[j] = "wait" /\ closeDrained'[j]
                                    /\ closeResult'[j] \in {Nil, ErrDrain}]_vars

C6_Witness ==
    closeResult[1] = ErrTimeout /\ outputsWg > 0 /\ drainCalls = 0 /\ closePc[1] = "returned"

\* C7 as stated: Close followed by Close returns success both times.
C7_BothSucceed ==
    (closePc[1] = "returned" /\ closePc[2] = "returned") =>
        (closeResult[1] = Nil /\ closeResult[2] = Nil)

\* C7 amended: a Close call on a subscriber that is already closed returns success
\* and changes nothing, so the closing signal is raised once and Drain is called at
\* most once; the first Close call may return the close-timeout or the Drain error.
C7_SecondCloseIsNoOp ==
    /\ [](closingCloses <= 1 /\ drainCalls <= 1)
    /\ [][\A k \in Closers :
            (closed /\ closePc[k] = "idle" /\ closePc'[k] # "idle") =>
                /\ closePc'[k] = "returned"
                /\ closeResult'[k] = Nil
                /\ UNCHANGED <<closed, closingCloses, outputsWg, drainCalls, closeDrained,
                               callVars, handlerVars>>]_vars

C7_Witness ==
    closePc[2] = "returned" /\ closeResult[2] = Nil /\ closeResult[1] = ErrTimeout

\* C8: a nack of a delivered message whose frame has a reply subject makes exactly
\* one transport call, chosen from the delay policy's result for the frame's
\* NumDelivered: Term when it is StopTime, NakWithDelay(result) when it is positive,
\* Nak otherwise, and Nak when no policy is configured or the metadata is unreadable.
C8_NackDispatch ==
    (last.outcome = "nacked" /\ last.reply # "") =>
        LET unread == last.meta = <<>> \/ last.meta[1].err
            result == IF config.NakDelay = Nil \/ unread THEN 0
                      ELSE WaitTime(config.NakDelay, last.meta[1].NumDelivered)
        IN  /\ config.NakDelay # Nil => last.meta # <<>>
            /\ Len(last.calls) = 1
            /\ last.calls[1] =
                 (CASE result = StopTime -> Call("Term", 0)
                    [] result > 0 -> Call("NakWithDelay", result)
                    [] OTHER -> Call("Nak", 0))

C8_Witness ==
    /\ last.outcome = "nacked"
    /\ last.reply # ""
    /\ last.nak = <<StopTime>>
    /\ last.calls = <<Call("Term", 0)>>

\* C9: an ack of a delivered message whose frame has a reply subject sends AckSync
\* if and only if config.AckSync is set and Ack otherwise, never both.
C9_AckDispatch ==
    (last.outcome = "acked" /\ last.reply # "") =>
        last.calls = <<Call(IF config.AckSync THEN "AckSync" ELSE "Ack", 0)>>

C9_Witness ==
    /\ last.outcome = "acked"
    /\ last.reply # ""
    /\ config.AckSync
    /\ last.calls = <<Call("AckSync", 0)>>

\* C10: construction fails with a validation error exactly when, after defaulting,
\* SubscribersCount > 1 and QueueGroup is empty; a non-empty QueueGroup accepts any
\* SubscribersCount, and a SubscribersCount <= 0 becomes 1 and is accepted.
C10_QueueGroupConstraint ==
    newErr # "pending" =>
        LET count == IF input.SubscribersCount <= 0 THEN 1 ELSE input.SubscribersCount IN
        /\ newErr \in ValidationErrors <=> (count > 1 /\ input.QueueGroup = "")
        /\ (newErr = Nil /\ input.SubscribersCount <= 0) => config.SubscribersCount = 1

C10_Witness ==
    /\ newErr \in ValidationErrors
    /\ input.SubscribersCount > 1
    /\ input.QueueGroup = ""

\* C11: every successful Subscribe call returns a channel of its own and registers
\* exactly SubscribersCount native subscriptions, each on the primary subject of the
\* call's topic with the configured queue group, and each handler sends the
\* messages of its subscription to the channel of its call and to no other.
C11_SubscribeRegisters ==
    \A c \in Calls :
        callState[c] = "ok" =>
            /\ output[c] # 0
            /\ \A d \in Calls \ {c} : output[d] # output[c]
            /\ Cardinality({ s \in Subs : callOf(s) = c /\ subscription[s] # NoSubscription })
                   = config.SubscribersCount
            /\ \A s \in Subs :
                  (callOf(s) = c /\ subscription[s] # NoSubscription) =>
                      /\ subscription[s].subject = Primary(config.SubjectCalculator, topic[c])
                      /\ subscription[s].queue = config.QueueGroup
                      /\ subscription[s].output = output[c]
                      /\ hsentOn[s] \in {0, output[c]}
                      /\ \A d \in Calls \ {c} : hsentOn[s] # 0 => hsentOn[s] # output[d]

C11_Witness ==
    /\ config.SubscribersCount = 2
    /\ callState[1] = "ok" /\ callState[2] = "ok"
    /\ topic[1] = topic[2]
    /\ \E s \in Subs : callOf(s) = 2 /\ hsentOn[s] = output[2]

\* C12: no handler ever attempts to send a message on a delivery channel that has
\* already been closed, whatever the interleaving of handlers with Close or with
\* the cancellation of the Subscribe context.
C12_NoSendOnClosedChannel ==
    \A s \in Subs : ~(outputCloses[callOf(s)] > 0 /\ hpc[s] = "panic")

\* C13: after a Close call has returned the close-timeout error, a later Close
\* call attempts Drain on the connection.
C13_RetryCloseDrains ==
    \A j, k \in Closers :
        (j < k /\ closeResult[j] = ErrTimeout /\ closePc[k] = "returned") => closeDrained[k]

\* C14: under any number of Close calls the closing signal is raised exactly once
\* (s.closing is never closed twice) by the first Close call and never returns to
\* pending, and Drain is called at most once in the subscriber's lifetime.
C14_ClosingOneShot ==
    /\ [](/\ closingCloses \in {0, 1}
          /\ drainCalls \in {0, 1}
          /\ (\E k \in Closers : closePc[k] # "idle") <=> closingCloses = 1
          /\ Cardinality({ k \in Closers : closeDrained[k] }) = drainCalls)
    /\ [][closingCloses' >= closingCloses /\ drainCalls' >= drainCalls]_vars

C14_Witness ==
    /\ \A k \in Closers : closePc[k] = "returned"
    /\ closingCloses = 1
    /\ drainCalls = 1

\* The parts of C15 about the subscriber's state: the cancellation of the context of
\* call c leaves closed, closing and everything of the other calls as they are, and
\* afterwards only the watchers, handlers and channel of a cancelled call react to it.
CancelFrame ==
    \A c \in Calls :
        (~ctxDone[c] /\ ctxDone'[c]) =>
            /\ closed' = closed
            /\ closingCloses' = closingCloses
            /\ \A d \in Calls \ {c} :
                  /\ ctxDone'[d] = ctxDone[d]
                  /\ callState'[d] = callState[d]
                  /\ outputCloses'[d] = outputCloses[d]
                  /\ innerWg'[d] = innerWg[d]
                  /\ finisher'[d] = finisher[d]
            /\ \A s \in Subs :
                  callOf(s) # c =>
                      /\ watcher'[s] = watcher[s]
                      /\ subscription'[s] = subscription[s]
                      /\ hpc'[s] = hpc[s]
                      /\ hack'[s] = hack[s]

CancelStaysLocal ==
    ~closingSignalled =>
        /\ \A s \in Subs : watcher[s] = "exited" => ctxDone[callOf(s)]
        /\ \A s \in Subs : hpc[s] \in {"handoffCtx", "ackCtx"} => ctxDone[callOf(s)]
        /\ \A c \in Calls : outputCloses[c] > 0 => ctxDone[c]

\* C15: cancelling the context of one Subscribe call affects only that call: its
\* subscriptions are unsubscribed and its channel is closed, while the subscriptions,
\* in-flight handlers and channels of every other call, and the closed flag and the
\* closing signal, stay as they are; in particular the other calls keep running, so
\* the process is not brought down.
C15_CancelAffectsOnlyItsCall ==
    /\ [][CancelFrame]_vars
    /\ [](CancelStaysLocal)
    /\ [](~closingSignalled => ~Crashed)

\* A step in which a processMessage call returns: a running handler becomes idle,
\* or a frame is delivered whose handler returns at once on the Unmarshal error.
HandlerReturns ==
    \/ \E s \in Subs : hpc[s] # "idle" /\ hpc'[s] = "idle"
    \/ frames' # frames /\ last'.outcome = "unmarshalError"

AckOps == {"Ack", "AckSync"}
NakOps == {"Nak", "NakWithDelay", "Term"}

\* C16: for each delivered frame the handler makes at most one transport call, and
\* it answers the first signal of the consumer that the handler observed: an Ack or
\* AckSync for an ack, a Nak, NakWithDelay or Term for a nack.  A second, opposite
\* signal on the message and a signal arriving after the handler has returned
\* cause no transport call.
C16_AtMostOneTransportCall ==
    /\ [](/\ Len(last.calls) <= 1
          /\ last.calls # <<>> =>
                /\ last.delivered
                /\ last.outcome = "acked" => (last.hack = "acked" /\ last.calls[1].op \in AckOps)
                /\ last.outcome = "nacked" => (last.hack = "nacked" /\ last.calls[1].op \in NakOps)
                /\ last.outcome \in {"acked", "nacked"})
    /\ [][/\ last'.calls # last.calls => HandlerReturns
          /\ \A s \in Subs :
                (hpc[s] # "idle" /\ hpc'[s] = "idle" /\ last'.calls # <<>>) =>
                    \/ hpc[s] = "doAck" /\ hack[s] = "acked"
                    \/ hpc[s] = "doNack" /\ hack[s] = "nacked"
          /\ \A s \in Subs : (hsecond'[s] /\ ~hsecond[s]) => (hpc'[s] = hpc[s] /\ last' = last)
          /\ (last.outcome # "none" /\ last.hack = "none" /\ last'.hack # "none") =>
                (last'.calls = last.calls \/ HandlerReturns)]_vars

C16_Witness ==
    /\ last.outcome = "nacked"
    /\ last.second
    /\ last.calls = <<Call("Term", 0)>>

AckPhaseExits == {"ackTimeout", "ackClosing", "ackCtx"}

\* C17: when the ack phase of a delivered message is ended by the ack-wait timer,
\* by the closing signal or by the cancellation of the context, the handler returns
\* without any Ack, Nak or Term transport call for the frame, and an ack or nack of
\* the consumer that arrives afterwards produces no transport call either.
C17_NoCallAfterAckPhaseExit ==
    /\ [](last.outcome \in AckPhaseExits => (last.delivered /\ last.calls = <<>>))
    /\ [][\A s \in Subs :
            (hpc[s] \in AckPhaseExits /\ hpc'[s] # hpc[s]) =>
                /\ hpc'[s] = "idle"
                /\ last'.outcome = hpc[s]
                /\ last'.calls = <<>>]_vars
    /\ [][(last.outcome \in AckPhaseExits /\ last.hack = "none" /\ last'.hack # "none"
             /\ ~HandlerReturns)
               => (last'.calls = <<>> /\ last'.outcome = last.outcome /\ hpc' = hpc)]_vars

C17_Witness ==
    /\ last.outcome = "ackTimeout"
    /\ last.hack = "nacked"
    /\ last.calls = <<>>
    /\ ~closingSignalled

\* C18: for a frame with an empty reply subject the handler makes no transport call
\* and does not consult the delay policy (neither m.Metadata() nor WaitTime is
\* called), whether the consumer acks or nacks the message.
C18_EmptyReplyIsNoOp ==
    last.reply = "" =>
        /\ last.outcome \in {"acked", "nacked"}
        /\ last.calls = <<>>
        /\ last.meta = <<>>
        /\ last.nak = <<>>

C18_Witness ==
    /\ last.outcome = "nacked"
    /\ last.reply = ""
    /\ config.NakDelay # Nil
    /\ last.calls = <<>>

\* C19: a Subscribe call that fails at some index leaves the subscriber closable:
\* each native subscription it had created has a watcher that unsubscribes it on
\* Close, and the failed call does not keep s.outputsWg from finishing, so Close
\* returns the close-timeout error only while the finisher of a successful
\* Subscribe call has not finished.
C19_FailedSubscribeLeavesClosable ==
    /\ [](\A c \in Calls :
            callState[c] = "err" =>
                \A s \in SubsOf(c) :
                    /\ watcher[s] # "none"
                    /\ watcher[s] = "exited" => (closingSignalled \/ ctxDone[c]))
    /\ [][\A k \in Closers :
            (closePc[k] = "wait" /\ closeResult'[k] = ErrTimeout) =>
                \E c \in Calls : callState[c] = "ok" /\ finisher[c] # "done"]_vars

Drops == {"unmarshalError", "closedFlag", "handoffClosing", "handoffCtx"}

\* C20: a transport call is made for a frame only if its message was first handed
\* to the consumer on the delivery channel and the consumer then signalled ack or
\* nack on it; a frame dropped because unmarshalling failed, because the closed flag
\* was set, or because closing or the cancellation won the handoff phase is
\* neither delivered nor acknowledged.
C20_CallsOnlyAfterDeliveryAndSignal ==
    /\ [](/\ last.calls # <<>> => (last.delivered /\ last.hack \in {"acked", "nacked"})
          /\ last.outcome \in Drops =>
                (~last.delivered /\ last.hack = "none" /\ last.calls = <<>>)
          /\ \A s \in Subs : hack[s] # "none" => hsentOn[s] # 0)
    /\ [][\A s \in Subs :
            (hpc[s] # "idle" /\ hpc'[s] = "idle") =>
                /\ last'.delivered <=> hsentOn[s] # 0
                /\ last'.calls # <<>> => (hsentOn[s] # 0 /\ hack[s] # "none")]_vars

C20_Witness ==
    /\ last.outcome = "closedFlag"
    /\ closed
    /\ ~last.delivered
    /\ last.calls = <<>>

\* The delivery channel of a successful Subscribe call whose watchers are released is
\* eventually closed unless the process ends with a panic first.
ClosedUnlessCrashed ==
    \A c \in Calls :
        (callState[c] = "ok" /\ (closingSignalled \/ ctxDone[c]))
            ~> (outputCloses[c] > 0 \/ Crashed)

\* C21: once Close has been invoked or the context of a Subscribe call has been
\* cancelled, the delivery channel of every successful Subscribe call concerned is
\* eventually closed, under fair scheduling of the watchers and finishers and
\* without the consumer reading, acking or nacking anything.
C21_OutputEventuallyClosed ==
    \A c \in Calls :
        (callState[c] = "ok" /\ (closingSignalled \/ ctxDone[c])) ~> (outputCloses[c] > 0)

====
